---- MODULE Spec2Model ----
\* Model of the plan-execute-observe loop of the Agent repository:
\*   app/promt/planning.py   Planning (step plan)
\*   app/mcp/gaode_mcp.py    GaoDeMCPClient (tool session)
\*   app/llm/client.py       LLMClient.call (model caller)
\*   app/utils/tools.py      tool descriptor conversion
\*   app/agent/MCPAgent.py   MCPAgent.run (reasoning loop)
\* A Python str is a sequence of one-character strings. Characters outside
\* ASCII are written by name: FULLSTOP is the ideographic full stop U+3002.
EXTENDS Integers, Sequences, FiniteSets, TLC

VARIABLES
    planning,       \* the Planning object: requirement, info_list, plan_steps, current_step_index
    last_op,        \* name of the last Planning method called from outside a run
    last_ret,       \* what that call returned or raised
    given_text,      \* the planning reply a Planning object used on its own is given to parse
    adv_false,      \* number of advance_step calls that returned False since the plan was last set
    gaode_client,   \* the GaoDeMCPClient object: session, _tools
    transport,      \* state of the SSE connection and ClientSession scopes opened by connect()
    provider,       \* the tools the remote MCP server lists
    pc,             \* position of the run generator
    round,          \* number of iterations of the round loop started
    pending,        \* tool calls of the current round not yet processed
    final_answer,   \* local variable final_answer of run
    events,         \* strings yielded by run so far
    calls,          \* external calls made by run so far, in order
    raised,         \* exception propagated to the caller of run ("none" while there is none)
    raise_site,     \* where that exception was raised
    stop_mark       \* <<Len(calls), round>> when advance_step first returned False in the run

vars == <<planning, last_op, last_ret, given_text, adv_false, gaode_client, transport, provider,
          pc, round, pending, final_answer, events, calls, raised, raise_site, stop_mark>>

run_vars == <<gaode_client, transport, provider, pc, round, pending, final_answer,
              events, calls, raised, raise_site, stop_mark>>

-----------------------------------------------------------------------------
\* Bounds of the model.

\* Longest plan text enumerated character by character.
MaxTextLen == 3
\* Longest plan built by repeating one step (more than max_rounds steps are needed).
MaxPlanSteps == 7
\* Most observations a Planning object is given outside a run.
MaxInfo == 2
\* Most tool-call requests in one model reply.
MaxToolCalls == 2
\* Most requests a client used on its own sends on its sessions.
MaxSessionRequests == 3

-----------------------------------------------------------------------------
\* Characters and strings.

FULLSTOP == "U+3002"
None == <<"<None>">>

\* What str.strip() without arguments removes (space, tab, newline here).
Whitespace == {" ", "\t", "\n"}
\* Argument of the second strip in set_plan_steps_from_text: " 。\n".
StepStripChars == {" ", FULLSTOP, "\n"}

Chars == {"a", " ", "\n", "\t", FULLSTOP}

RECURSIVE TextsOfLen(_)
TextsOfLen(n) ==
    IF n = 0 THEN {<<>>}
    ELSE {Append(t, c) : t \in TextsOfLen(n - 1), c \in Chars}

RECURSIVE RepeatText(_, _)
RepeatText(unit, n) == IF n = 0 THEN <<>> ELSE unit \o RepeatText(unit, n - 1)

\* Scenario A of the specification, three characters per step.
ScenarioA == <<"x", "t", "q", FULLSTOP, "x", "j", "d", FULLSTOP>>

\* Planning replies: every short text, and some longer ones.
PlanTexts ==
    UNION {TextsOfLen(n) : n \in 0..MaxTextLen}
    \cup {ScenarioA, <<"a", "\t", FULLSTOP, "\t", "a">>, <<" ", "a", " ", "a", "\n">>,
          <<"a", FULLSTOP, FULLSTOP, " ", FULLSTOP, "a", " ", FULLSTOP, "\n", "a">>}

\* Planning replies of 1..MaxPlanSteps steps (the prompt asks for at most
\* three, the model may give more).
LongPlans == {RepeatText(<<"a", FULLSTOP>>, n) : n \in 1..MaxPlanSteps}

\* str.split(sep) for a one-character separator.
RECURSIVE split(_, _)
split(s, sep) ==
    IF \A i \in 1..Len(s) : s[i] # sep THEN <<s>>
    ELSE LET i == CHOOSE k \in 1..Len(s) : s[k] = sep /\ \A j \in 1..(k - 1) : s[j] # sep
         IN <<SubSeq(s, 1, i - 1)>> \o split(SubSeq(s, i + 1, Len(s)), sep)

\* str.lstrip(chars), str.rstrip(chars), str.strip(chars).
RECURSIVE lstrip(_, _)
lstrip(s, chars) ==
    IF s # <<>> /\ Head(s) \in chars THEN lstrip(Tail(s), chars) ELSE s

RECURSIVE rstrip(_, _)
rstrip(s, chars) ==
    IF s # <<>> /\ s[Len(s)] \in chars THEN rstrip(SubSeq(s, 1, Len(s) - 1), chars) ELSE s

strip(s, chars) == rstrip(lstrip(s, chars), chars)

-----------------------------------------------------------------------------
\* Planning (app/promt/planning.py). A method is an operator from the object
\* to the object after the call, with the return value where there is one.

Planning_init(requirement) ==
    [requirement |-> requirement, info_list |-> <<>>,
     plan_steps |-> <<>>, current_step_index |-> -1]

\* add_info putting the text in front.
add_info_first(p, info) == [p EXCEPT !.info_list = <<info>> \o @]

add_info(p, info) == [p EXCEPT !.info_list = Append(@, info)]

\* set_plan_steps with the cursor at the first step whatever the list.
set_plan_steps_zero(p, steps) ==
    [p EXCEPT !.plan_steps = steps, !.current_step_index = 0]

set_plan_steps(p, steps) ==
    [p EXCEPT !.plan_steps = steps,
              !.current_step_index = IF steps # <<>> THEN 0 ELSE -1]

\* The filter "if step.strip()" left out.
StepKept_all(step) == TRUE

StepKept(step) == strip(step, Whitespace) # <<>>
StepTrimmed(step) == strip(step, StepStripChars)

\* [step.strip(" 。\n") for step in candidates if step.strip()]
RECURSIVE steps_of(_)
steps_of(candidates) ==
    IF candidates = <<>> THEN <<>>
    ELSE (IF StepKept(Head(candidates)) THEN <<StepTrimmed(Head(candidates))>> ELSE <<>>)
         \o steps_of(Tail(candidates))

\* set_plan_steps_from_text taking a text without delimiter for no plan.
set_plan_steps_from_text_strict(p, plan_text) ==
    set_plan_steps(p, IF \A i \in 1..Len(plan_text) : plan_text[i] # FULLSTOP THEN <<>>
                      ELSE steps_of(split(plan_text, FULLSTOP)))

set_plan_steps_from_text(p, plan_text) ==
    set_plan_steps(p, steps_of(split(plan_text, FULLSTOP)))

\* update_plan_step taking a negative index the way a list subscript does.
update_plan_step_negative(p, index, step) ==
    IF 0 <= index /\ index < Len(p.plan_steps)
    THEN [obj |-> [p EXCEPT !.plan_steps[index + 1] = step], raised |-> "none"]
    ELSE IF index < 0 /\ Len(p.plan_steps) + index >= 0
    THEN [obj |-> [p EXCEPT !.plan_steps[Len(p.plan_steps) + index + 1] = step],
          raised |-> "none"]
    ELSE [obj |-> p, raised |-> "IndexError"]

update_plan_step(p, index, step) ==
    IF 0 <= index /\ index < Len(p.plan_steps)
    THEN [obj |-> [p EXCEPT !.plan_steps[index + 1] = step], raised |-> "none"]
    ELSE [obj |-> p, raised |-> "IndexError"]

get_current_step(p) ==
    IF 0 <= p.current_step_index /\ p.current_step_index < Len(p.plan_steps)
    THEN p.plan_steps[p.current_step_index + 1]
    ELSE None

\* advance_step starting over at the end of the plan.
advance_step_wrap(p) ==
    IF p.current_step_index + 1 < Len(p.plan_steps)
    THEN [obj |-> [p EXCEPT !.current_step_index = @ + 1], ret |-> TRUE]
    ELSE IF Len(p.plan_steps) > 1
    THEN [obj |-> [p EXCEPT !.current_step_index = 0], ret |-> TRUE]
    ELSE [obj |-> p, ret |-> FALSE]

advance_step(p) ==
    IF p.current_step_index + 1 < Len(p.plan_steps)
    THEN [obj |-> [p EXCEPT !.current_step_index = @ + 1], ret |-> TRUE]
    ELSE [obj |-> p, ret |-> FALSE]

\* Planning.__str__ showing the first step of the plan as the next one.
Planning_str_first(p) ==
    [requirement |-> p.requirement,
     info |-> IF p.info_list # <<>> THEN p.info_list ELSE <<"(none)">>,
     next_step |-> IF p.plan_steps = <<>> THEN <<"(unset)">> ELSE p.plan_steps[1]]

\* Planning.__str__: requirement, every info item in order, and the current
\* step, "(unset)" standing for a current step that is None or empty.
Planning_str(p) ==
    [requirement |-> p.requirement,
     info |-> IF p.info_list # <<>> THEN p.info_list ELSE <<"(none)">>,
     next_step |-> IF get_current_step(p) \in {None, <<>>}
                   THEN <<"(unset)">> ELSE get_current_step(p)]

-----------------------------------------------------------------------------
\* Tool descriptors (app/utils/tools.py) and the tool session
\* (app/mcp/gaode_mcp.py).

WeatherTool ==
    [name |-> "maps_weather", description |-> "weather of a city",
     inputSchema |-> [type |-> "object", required |-> <<"city">>]]
GeoTool ==
    [name |-> "maps_geo", description |-> "coordinates of an address",
     inputSchema |-> [type |-> "object", required |-> <<"address">>]]

\* What the remote server may answer to a tool listing.
Providers == {<<>>, <<WeatherTool>>, <<WeatherTool, GeoTool>>}

\* The conversion keeping only the type of the input schema.
convert_tool_to_openai_param_bare(tool) ==
    [type |-> "function",
     function |-> [name |-> tool.name, description |-> tool.description,
                   parameters |-> [type |-> tool.inputSchema.type]]]

convert_tool_to_openai_param(tool) ==
    [type |-> "function",
     function |-> [name |-> tool.name, description |-> tool.description,
                   parameters |-> tool.inputSchema]]

convert_tools_to_openai_params(tools) ==
    [i \in 1..Len(tools) |-> convert_tool_to_openai_param(tools[i])]

GaoDeMCPClient_init == [session |-> "None", _tools |-> <<>>]

\* connect() up to its yield. net says how far the connection gets:
\* "sse_fail" (sse_client cannot connect), "init_fail" (session.initialize
\* raises, inside both async with scopes), "ok".
connect_enter(c, net) ==
    CASE net = "sse_fail" -> [client |-> c, transport |-> "closed", raised |-> "ConnectError"]
      [] net = "init_fail" -> [client |-> [c EXCEPT !.session = "session"],
                               transport |-> "closed", raised |-> "ConnectError"]
      [] OTHER -> [client |-> [c EXCEPT !.session = "session"],
                   transport |-> "open", raised |-> "none"]

\* connect() without scopes that close when the body raises.
connect_exit_unscoped(c, exc) ==
    [client |-> IF exc THEN c ELSE [c EXCEPT !.session = "None"],
     transport |-> IF exc THEN "open" ELSE "closed"]

\* connect() from its yield on. The line after the yield runs only when the
\* body of the scope ended normally; the two async with scopes close either way.
connect_exit(c, exc) ==
    [client |-> IF exc THEN c ELSE [c EXCEPT !.session = "None"],
     transport |-> "closed"]

NoValue == [tool |-> "", args |-> [city |-> ""]]

\* list_tools. requests: what is sent on the session.
list_tools(c, prov, net_ok) ==
    IF c.session = "None"
    THEN [client |-> c, raised |-> "RuntimeError", site |-> "session_check", requests |-> <<>>]
    ELSE IF ~net_ok
    THEN [client |-> c, raised |-> "McpError", site |-> "list_tools_request",
          requests |-> <<[request |-> "list_tools", outcome |-> "fail"]>>]
    ELSE [client |-> [c EXCEPT !._tools = convert_tools_to_openai_params(prov)],
          raised |-> "none", site |-> "none",
          requests |-> <<[request |-> "list_tools", outcome |-> "ok"]>>]

\* tool["name"] for every tool of the list: raises KeyError at a dict without that key.
HasKey(d, key) == key \in DOMAIN d
names_of(tools) ==
    IF \E i \in 1..Len(tools) : ~HasKey(tools[i], "name")
    THEN [raised |-> "KeyError", names |-> <<>>]
    ELSE [raised |-> "none", names |-> [i \in 1..Len(tools) |-> tools[i]["name"]]]

\* call_tool asking for the tool list at every call.
call_tool_no_cache(c, tool_name, params, prov, net) ==
    IF c.session = "None"
    THEN [client |-> c, raised |-> "RuntimeError", site |-> "session_check",
          requests |-> <<>>, value |-> NoValue]
    ELSE
    LET lt == IF TRUE THEN list_tools(c, prov, net.list)
              ELSE [client |-> c, raised |-> "none", site |-> "none", requests |-> <<>>]
        nm == names_of(lt.client._tools)
    IN  IF lt.raised # "none"
        THEN [client |-> lt.client, raised |-> lt.raised, site |-> lt.site,
              requests |-> lt.requests, value |-> NoValue]
        ELSE IF nm.raised # "none"
        THEN [client |-> lt.client, raised |-> nm.raised, site |-> "name_check",
              requests |-> lt.requests, value |-> NoValue]
        ELSE IF \A i \in 1..Len(nm.names) : nm.names[i] # tool_name
        THEN [client |-> lt.client, raised |-> "ValueError", site |-> "name_check",
              requests |-> lt.requests, value |-> NoValue]
        ELSE IF ~net.call
        THEN [client |-> lt.client, raised |-> "McpError", site |-> "call_tool_request",
              requests |-> Append(lt.requests,
                  [request |-> "call_tool", name |-> tool_name, args |-> params,
                   outcome |-> "fail"]),
              value |-> NoValue]
        ELSE [client |-> lt.client, raised |-> "none", site |-> "none",
              requests |-> Append(lt.requests,
                  [request |-> "call_tool", name |-> tool_name, args |-> params,
                   outcome |-> "ok"]),
              value |-> [tool |-> tool_name, args |-> params]]

\* call_tool. net.list and net.call say whether the remote requests succeed.
call_tool(c, tool_name, params, prov, net) ==
    IF c.session = "None"
    THEN [client |-> c, raised |-> "RuntimeError", site |-> "session_check",
          requests |-> <<>>, value |-> NoValue]
    ELSE
    LET lt == IF c._tools = <<>> THEN list_tools(c, prov, net.list)
              ELSE [client |-> c, raised |-> "none", site |-> "none", requests |-> <<>>]
        nm == names_of(lt.client._tools)
    IN  IF lt.raised # "none"
        THEN [client |-> lt.client, raised |-> lt.raised, site |-> lt.site,
              requests |-> lt.requests, value |-> NoValue]
        ELSE IF nm.raised # "none"
        THEN [client |-> lt.client, raised |-> nm.raised, site |-> "name_check",
              requests |-> lt.requests, value |-> NoValue]
        ELSE IF \A i \in 1..Len(nm.names) : nm.names[i] # tool_name
        THEN [client |-> lt.client, raised |-> "ValueError", site |-> "name_check",
              requests |-> lt.requests, value |-> NoValue]
        ELSE IF ~net.call
        THEN [client |-> lt.client, raised |-> "McpError", site |-> "call_tool_request",
              requests |-> Append(lt.requests,
                  [request |-> "call_tool", name |-> tool_name, args |-> params,
                   outcome |-> "fail"]),
              value |-> NoValue]
        ELSE [client |-> lt.client, raised |-> "none", site |-> "none",
              requests |-> Append(lt.requests,
                  [request |-> "call_tool", name |-> tool_name, args |-> params,
                   outcome |-> "ok"]),
              value |-> [tool |-> tool_name, args |-> params]]

-----------------------------------------------------------------------------
\* The model caller (app/llm/client.py) and json.loads.

\* LLMClient.call without the raise: a failed request is passed over.
LLMClient_call_swallow(net) == [raised |-> "none", ret |-> net.reply]

\* LLMClient.call: the exception of the request becomes LLMInvokeError, the
\* response is returned as it is.
LLMClient_call(net) ==
    IF ~net.ok THEN [raised |-> "LLMInvokeError", ret |-> net.reply]
    ELSE [raised |-> "none", ret |-> net.reply]

\* result.choices[-1]
last_choice(reply) == reply.choices[Len(reply.choices)]

\* The tool calls of a reply taken up whatever its finish reason.
tool_calls_of_any(choice) == choice.tool_calls

\* Lines 95-98: the tool calls run takes from a reply.
tool_calls_of(choice) ==
    IF choice.finish_reason = "tool_calls" THEN choice.tool_calls ELSE <<>>

Choice(content, finish_reason, tool_calls) ==
    [content |-> content, finish_reason |-> finish_reason, tool_calls |-> tool_calls]
Reply(content, finish_reason, tool_calls) ==
    [choices |-> <<Choice(content, finish_reason, tool_calls)>>]
NoReply == Reply(<<>>, "stop", <<>>)

WeatherArgs == "{\"city\": \"Shanghai\"}"
BadArgs == "{city"
ArgTexts == {WeatherArgs, BadArgs}
ToolNames == {"maps_weather", "maps_unknown"}

\* json.loads taking any text for an object.
json_loads_lenient(s) == [raised |-> "none", value |-> [city |-> "Shanghai"]]

json_loads(s) ==
    IF s = WeatherArgs THEN [raised |-> "none", value |-> [city |-> "Shanghai"]]
    ELSE [raised |-> "JSONDecodeError", value |-> [city |-> ""]]

ToolCallRequests == {[name |-> n, arguments |-> a] : n \in ToolNames, a \in ArgTexts}

RECURSIVE SeqsOfLen(_, _)
SeqsOfLen(S, n) ==
    IF n = 0 THEN {<<>>}
    ELSE {Append(q, x) : q \in SeqsOfLen(S, n - 1), x \in S}

ToolCallBatches == UNION {SeqsOfLen(ToolCallRequests, n) : n \in 1..MaxToolCalls}

Failure == [ok |-> FALSE, reply |-> NoReply]
PlanningOutcomes ==
    {Failure} \cup {[ok |-> TRUE, reply |-> Reply(t, "stop", <<>>)] : t \in PlanTexts \cup LongPlans}
DecisionOutcomes ==
    {Failure, [ok |-> TRUE, reply |-> Reply(<<"o", "k">>, "stop", <<>>)],
     [ok |-> TRUE,
      reply |-> Reply(<<>>, "length", <<[name |-> "maps_weather", arguments |-> BadArgs]>>)]}
    \cup {[ok |-> TRUE, reply |-> Reply(<<>>, "tool_calls", b)] : b \in ToolCallBatches}
SummaryOutcomes ==
    {Failure, [ok |-> TRUE, reply |-> Reply(<<"s", "u", "m">>, "stop", <<>>)]}
FinalOutcomes ==
    {Failure, [ok |-> TRUE, reply |-> Reply(<<>>, "stop", <<>>)],
     [ok |-> TRUE, reply |-> Reply(<<"a", "n", "s">>, "stop", <<>>)]}

-----------------------------------------------------------------------------
\* MCPAgent.run (app/agent/MCPAgent.py).

max_rounds == 6

\* get_default_tools() with the walking tool under the name of the driving tool.
get_default_tools_dup ==
    [i \in 1..12 |->
        [type |-> "function",
         function |-> [name |-> <<"maps_direction_bicycling", "maps_direction_driving",
                                  "maps_direction_transit_integrated",
                                  "maps_direction_driving", "maps_distance", "maps_geo",
                                  "maps_regeocode", "maps_ip_location", "maps_around_search",
                                  "maps_search_detail", "maps_text_search",
                                  "maps_weather">>[i]]]]

\* The function names of get_default_tools(), in the order of the list.
get_default_tools ==
    [i \in 1..12 |->
        [type |-> "function",
         function |-> [name |-> <<"maps_direction_bicycling", "maps_direction_driving",
                                  "maps_direction_transit_integrated",
                                  "maps_direction_walking", "maps_distance", "maps_geo",
                                  "maps_regeocode", "maps_ip_location", "maps_around_search",
                                  "maps_search_detail", "maps_text_search",
                                  "maps_weather">>[i]]]]

UserInput == <<"q">>

\* The strings run yields.
PlanHeader == <<"plan_header">>
Dashes == <<"dashes">>
PlanEvent(p) == <<"plan", Planning_str(p)>>
StepEvent(step) == <<"step", step>>
ToolCallEvent(name, args) == <<"tool_call", name, args>>
NoNextEvent == <<"no_next">>
FinalEvent(answer) == <<"final", answer>>

\* One entry of calls: the external call, where run makes it, what it carries,
\* how it ended, the finish reason of the reply and the tool calls run takes
\* from it, and how many events had been yielded when it was made.
Call(api, site, content, tools, net) ==
    [api |-> api, site |-> site, content |-> content, tools |-> tools,
     outcome |-> IF net.ok THEN "ok" ELSE "fail",
     finish_reason |-> last_choice(net.reply).finish_reason,
     requested |-> tool_calls_of(last_choice(net.reply)),
     nevents |-> Len(events)]

\* The entries of calls for the requests call_tool sent on the session.
SessionCalls(requests) ==
    [i \in 1..Len(requests) |->
        Call("mcp", requests[i].request,
             IF requests[i].request = "call_tool"
             THEN [tool |-> requests[i].name, args |-> requests[i].args] ELSE NoValue,
             <<>>, [ok |-> requests[i].outcome = "ok", reply |-> NoReply])]

\* An exception leaves run before the connect() scope is entered.
Abort(exc, site) ==
    /\ raised' = exc
    /\ raise_site' = site
    /\ pc' = "done"

\* An exception leaves run from inside the connect() scope.
AbortInScope(client, exc, site) ==
    /\ gaode_client' = connect_exit(client, TRUE).client
    /\ transport' = connect_exit(client, TRUE).transport
    /\ Abort(exc, site)

\* The loop bound off by one.
loop_has_next_inclusive(r) == r <= max_rounds

\* range(max_rounds) has another value after r iterations.
loop_has_next(r) == r < max_rounds

\* Lines 122-124 and 135: where the loop body goes after advance_step, and
\* after the final answer call ("break").
after_advance(can_next) == IF can_next THEN "round" ELSE "final"
after_final_no_break == "round"
after_final == "exit_scope"

\* "if not final_answer"
falsy(str) == str = <<>>

InitRun ==
    /\ planning = Planning_init(UserInput)
    /\ last_op = "init"
    /\ last_ret = [raised |-> "none", bool |-> FALSE, step |-> None]
    /\ given_text = <<>>
    /\ adv_false = 0
    /\ gaode_client = GaoDeMCPClient_init
    /\ transport = "closed"
    /\ provider \in Providers
    /\ pc = "start"
    /\ round = 0
    /\ pending = <<>>
    /\ final_answer = <<>>
    /\ events = <<>>
    /\ calls = <<>>
    /\ raised = "none"
    /\ raise_site = "none"
    /\ stop_mark = <<>>

plan_vars == <<last_op, last_ret, given_text, adv_false>>

\* The planning call made with the tool catalog, inside an open scope.
PlanningCall_in_scope ==
    /\ pc = "start"
    /\ \E net \in PlanningOutcomes :
        LET r == LLMClient_call(net)
        IN  /\ calls' = Append(calls, Call("llm", "planning",
                            [system |-> "planning_prompt", user |-> UserInput],
                            get_default_tools, net))
            /\ IF r.raised # "none"
               THEN /\ Abort(r.raised, "llm_planning")
                    /\ UNCHANGED planning
               ELSE /\ planning' = set_plan_steps_from_text(planning, last_choice(r.ret).content)
                    /\ pc' = "yield_plan"
                    /\ UNCHANGED <<raised, raise_site>>
    /\ gaode_client' = connect_enter(gaode_client, "ok").client
    /\ transport' = connect_enter(gaode_client, "ok").transport
    /\ UNCHANGED <<plan_vars, provider, round, pending,
                   final_answer, events, stop_mark>>

\* Lines 51-71: the planning call and set_plan_steps_from_text.
PlanningCall ==
    /\ pc = "start"
    /\ \E net \in PlanningOutcomes :
        LET r == LLMClient_call(net)
        IN  /\ calls' = Append(calls, Call("llm", "planning",
                            [system |-> "planning_prompt", user |-> UserInput],
                            <<>>, net))
            /\ IF r.raised # "none"
               THEN /\ Abort(r.raised, "llm_planning")
                    /\ UNCHANGED planning
               ELSE /\ planning' = set_plan_steps_from_text(planning, last_choice(r.ret).content)
                    /\ pc' = "yield_plan"
                    /\ UNCHANGED <<raised, raise_site>>
    /\ UNCHANGED <<plan_vars, gaode_client, transport, provider, round, pending,
                   final_answer, events, stop_mark>>

\* Lines 73-75: the plan is shown.
EmitPlan ==
    /\ pc = "yield_plan"
    /\ events' = events \o <<PlanHeader, PlanEvent(planning), Dashes>>
    /\ pc' = "connect"
    /\ UNCHANGED <<planning, plan_vars, gaode_client, transport, provider, round, pending,
                   final_answer, calls, raised, raise_site, stop_mark>>

\* Line 77: the connect() scope is entered.
Connect ==
    /\ pc = "connect"
    /\ \E net \in {"ok", "sse_fail", "init_fail"} :
        LET r == connect_enter(gaode_client, net)
        IN  /\ calls' = Append(calls, Call("mcp", "connect", NoValue, <<>>,
                                   [ok |-> net = "ok", reply |-> NoReply]))
            /\ gaode_client' = r.client
            /\ transport' = r.transport
            /\ IF r.raised # "none"
               THEN Abort(r.raised, "connect")
               ELSE /\ pc' = "round"
                    /\ UNCHANGED <<raised, raise_site>>
    /\ UNCHANGED <<planning, plan_vars, provider, round, pending, final_answer, events,
                   stop_mark>>

\* Lines 79-83: the next iteration of the loop starts, or the loop is over.
RoundStart ==
    /\ pc = "round"
    /\ IF loop_has_next(round)
       THEN /\ round' = round + 1
            /\ events' = events \o <<Dashes, StepEvent(get_current_step(planning))>>
            /\ pc' = "decide"
       ELSE /\ pc' = "exit_scope"
            /\ UNCHANGED <<round, events>>
    /\ UNCHANGED <<planning, plan_vars, gaode_client, transport, provider, pending,
                   final_answer, calls, raised, raise_site, stop_mark>>

\* Lines 85-98: the model decides whether tools are called.
DecisionCall ==
    /\ pc = "decide"
    /\ \E net \in DecisionOutcomes :
        LET r == LLMClient_call(net)
            choice == last_choice(r.ret)
        IN  /\ calls' = Append(calls, Call("llm", "decide", Planning_str(planning),
                            get_default_tools, net))
            /\ IF r.raised # "none"
               THEN /\ AbortInScope(gaode_client, r.raised, "llm_decide")
                    /\ UNCHANGED pending
               ELSE /\ pending' = tool_calls_of(choice)
                    /\ pc' = IF pending' # <<>> THEN "tool" ELSE "advance"
                    /\ UNCHANGED <<gaode_client, transport, raised, raise_site>>
    /\ UNCHANGED <<planning, plan_vars, provider, round, final_answer, events, stop_mark>>

\* The tool call is taken up without being announced.
ToolAnnounce_silent ==
    /\ pc = "tool"
    /\ pc' = "invoke"
    /\ UNCHANGED <<planning, plan_vars, gaode_client, transport, provider, round, pending,
                   final_answer, events, calls, raised, raise_site, stop_mark>>

\* Lines 98-101: the next tool call of the reply is announced.
ToolAnnounce ==
    /\ pc = "tool"
    /\ events' = Append(events, ToolCallEvent(Head(pending).name, Head(pending).arguments))
    /\ pc' = "invoke"
    /\ UNCHANGED <<planning, plan_vars, gaode_client, transport, provider, round, pending,
                   final_answer, calls, raised, raise_site, stop_mark>>

\* Lines 103-116: the arguments are parsed, the tool is called, its result is
\* summarised by the model, and the summary is added to the plan.
ToolInvoke ==
    /\ pc = "invoke"
    /\ \E net_list \in BOOLEAN, net_call \in BOOLEAN, net_sum \in SummaryOutcomes :
        LET parsed == json_loads(Head(pending).arguments)
            ct == call_tool(gaode_client, Head(pending).name, parsed.value, provider,
                            [list |-> net_list, call |-> net_call])
            with_session == calls \o SessionCalls(ct.requests)
            sum == LLMClient_call(net_sum)
        IN  IF parsed.raised # "none"
            THEN /\ AbortInScope(gaode_client, parsed.raised, "json_loads")
                 /\ UNCHANGED <<planning, pending, calls>>
            ELSE IF ct.raised # "none"
            THEN /\ AbortInScope(ct.client, ct.raised, ct.site)
                 /\ calls' = with_session
                 /\ UNCHANGED <<planning, pending>>
            ELSE /\ calls' = Append(with_session,
                            Call("llm", "summarize", ct.value, <<>>, net_sum))
                 /\ IF sum.raised # "none"
                    THEN /\ AbortInScope(ct.client, sum.raised, "llm_summarize")
                         /\ UNCHANGED <<planning, pending>>
                    ELSE /\ planning' = add_info(planning, last_choice(sum.ret).content)
                         /\ pending' = Tail(pending)
                         /\ pc' = IF pending' # <<>> THEN "tool" ELSE "advance"
                         /\ gaode_client' = ct.client
                         /\ UNCHANGED <<transport, raised, raise_site>>
    /\ UNCHANGED <<plan_vars, provider, round, final_answer, events, stop_mark>>

\* Lines 121-124: the plan advances, or the run turns to the final answer.
Advance ==
    /\ pc = "advance"
    /\ LET adv == advance_step(planning)
       IN  /\ planning' = adv.obj
           /\ pc' = after_advance(adv.ret)
           /\ IF adv.ret
              THEN UNCHANGED <<events, stop_mark>>
              ELSE /\ events' = Append(events, NoNextEvent)
                   /\ stop_mark' = [calls |-> Len(calls), round |-> round]
    /\ UNCHANGED <<plan_vars, gaode_client, transport, provider, round, pending,
                   final_answer, calls, raised, raise_site>>

\* Lines 125-135: the model is asked for the final answer, and the loop is left.
FinalCall ==
    /\ pc = "final"
    /\ \E net \in FinalOutcomes :
        LET r == LLMClient_call(net)
        IN  /\ calls' = Append(calls, Call("llm", "final", Planning_str(planning),
                            <<>>, net))
            /\ IF r.raised # "none"
               THEN /\ AbortInScope(gaode_client, r.raised, "llm_final")
                    /\ UNCHANGED final_answer
               ELSE /\ final_answer' = last_choice(r.ret).content
                    /\ pc' = after_final
                    /\ UNCHANGED <<gaode_client, transport, raised, raise_site>>
    /\ UNCHANGED <<planning, plan_vars, provider, round, pending, events, stop_mark>>

\* Line 77, at the end of the block: the connect() scope is left normally.
ExitScope ==
    /\ pc = "exit_scope"
    /\ gaode_client' = connect_exit(gaode_client, FALSE).client
    /\ transport' = connect_exit(gaode_client, FALSE).transport
    /\ pc' = "finish"
    /\ UNCHANGED <<planning, plan_vars, provider, round, pending, final_answer, events,
                   calls, raised, raise_site, stop_mark>>

\* Lines 137-141: the final answer is yielded, or the run fails for want of it.
Finish ==
    /\ pc = "finish"
    /\ IF falsy(final_answer)
       THEN /\ Abort("LLMInvokeError", "exhausted")
            /\ UNCHANGED events
       ELSE /\ events' = Append(events, FinalEvent(final_answer))
            /\ pc' = "done"
            /\ UNCHANGED <<raised, raise_site>>
    /\ UNCHANGED <<planning, plan_vars, gaode_client, transport, provider, round, pending,
                   final_answer, calls, stop_mark>>

Next ==
    \/ PlanningCall
    \/ EmitPlan
    \/ Connect
    \/ RoundStart
    \/ DecisionCall
    \/ ToolAnnounce
    \/ ToolInvoke
    \/ Advance
    \/ FinalCall
    \/ ExitScope
    \/ Finish

Spec == InitRun /\ [][Next]_vars

-----------------------------------------------------------------------------
\* A run whose consumer may stop asking for events (app/main.py: the
\* StreamingResponse of run_mcp_agent_stream is dropped when the client
\* disconnects). The generator then stays suspended at the yield it had
\* reached, until the event loop's finalizer of async generators closes it.

\* The positions at which the generator is suspended at a yield: after the
\* plan events (before connect), and inside the connect() scope after the
\* step announcement, a tool-call announcement, the no-next-step announcement.
YieldsInScope == {"decide", "invoke", "final"}
Yields == {"connect"} \cup YieldsInScope

\* aclose() that drops the frame without unwinding its async with scopes.
aclose_no_unwind(c, tr, in_scope) == [client |-> c, transport |-> tr]

\* aclose() on the suspended generator: GeneratorExit is raised at the yield
\* and leaves the frame through the async with scopes it is in.
aclose(c, tr, in_scope) ==
    IF in_scope THEN connect_exit(c, TRUE) ELSE [client |-> c, transport |-> tr]

\* The consumer stops; nothing of the run changes.
Abandon ==
    /\ pc \in Yields
    /\ pc' = "abandoned"
    /\ raise_site' = pc
    /\ UNCHANGED <<planning, plan_vars, gaode_client, transport, provider, round, pending,
                   final_answer, events, calls, raised, stop_mark>>

\* The abandoned generator is finalized.
Finalize ==
    /\ pc = "abandoned"
    /\ gaode_client' = aclose(gaode_client, transport, raise_site \in YieldsInScope).client
    /\ transport' = aclose(gaode_client, transport, raise_site \in YieldsInScope).transport
    /\ raised' = "GeneratorExit"
    /\ pc' = "done"
    /\ UNCHANGED <<planning, plan_vars, provider, round, pending, final_answer, events,
                   calls, raise_site, stop_mark>>

\* The runs against a server that lists one tool.
InitStream == InitRun /\ provider = <<WeatherTool>>

NextStream ==
    \/ Next
    \/ Abandon
    \/ Finalize

\* The event loop runs the finalizer of an async generator that was dropped
\* (sys.set_asyncgen_hooks), at the latest when it shuts down.
SpecStream == InitStream /\ [][NextStream]_vars /\ WF_vars(Finalize)

-----------------------------------------------------------------------------
\* A Planning object used on its own: any sequence of calls of its methods.

\* Step lists given to set_plan_steps directly.
StepLists == {<<>>, <<<<"a">>, <<"a", " ">>, <<>>>>}
NewStep == <<"b">>
\* The text given to add_info: it names its place in the list, so that the
\* order of the list shows.
Info(p) == <<"i", ToString(Len(p.info_list) + 1)>>

Ret(exc, b, step) == [raised |-> exc, bool |-> b, step |-> step]

InitPlanning ==
    /\ planning = Planning_init(UserInput)
    /\ last_op = "init"
    /\ last_ret = Ret("none", FALSE, None)
    /\ given_text \in PlanTexts
    /\ adv_false = 0
    /\ gaode_client = GaoDeMCPClient_init
    /\ transport = "closed"
    /\ provider = <<>>
    /\ pc = "idle"
    /\ round = 0
    /\ pending = <<>>
    /\ final_answer = <<>>
    /\ events = <<>>
    /\ calls = <<>>
    /\ raised = "none"
    /\ raise_site = "none"
    /\ stop_mark = <<>>

Do_set_plan_steps ==
    /\ pc = "idle"
    /\ \E steps \in StepLists : planning' = set_plan_steps(planning, steps)
    /\ last_op' = "set_plan_steps"
    /\ last_ret' = Ret("none", FALSE, None)
    /\ adv_false' = 0
    /\ UNCHANGED <<given_text, run_vars>>

Do_set_plan_steps_from_text ==
    /\ pc = "idle"
    /\ planning' = set_plan_steps_from_text(planning, given_text)
    /\ last_op' = "set_plan_steps_from_text"
    /\ last_ret' = Ret("none", FALSE, None)
    /\ adv_false' = 0
    /\ UNCHANGED <<given_text, run_vars>>

Do_add_info ==
    /\ pc = "idle"
    /\ Len(planning.info_list) < MaxInfo
    /\ planning' = add_info(planning, Info(planning))
    /\ last_op' = "add_info"
    /\ last_ret' = Ret("none", FALSE, None)
    /\ UNCHANGED <<given_text, adv_false, run_vars>>

Do_update_plan_step ==
    /\ pc = "idle"
    /\ \E index \in -1..Len(planning.plan_steps) :
        LET r == update_plan_step(planning, index, NewStep)
        IN  /\ planning' = r.obj
            /\ last_ret' = [Ret(r.raised, FALSE, None) EXCEPT !.step = <<index>>]
    /\ last_op' = "update_plan_step"
    /\ UNCHANGED <<given_text, adv_false, run_vars>>

Do_get_current_step ==
    /\ pc = "idle"
    /\ last_op' = "get_current_step"
    /\ last_ret' = Ret("none", FALSE, get_current_step(planning))
    /\ UNCHANGED <<planning, given_text, adv_false, run_vars>>

Do_advance_step ==
    /\ pc = "idle"
    /\ LET adv == advance_step(planning)
       IN  /\ planning' = adv.obj
           /\ last_ret' = Ret("none", adv.ret, None)
           /\ adv_false' = IF adv.ret THEN adv_false
                           ELSE IF adv_false < 2 THEN adv_false + 1 ELSE 2
    /\ last_op' = "advance_step"
    /\ UNCHANGED <<given_text, run_vars>>

NextPlanning ==
    \/ Do_set_plan_steps
    \/ Do_set_plan_steps_from_text
    \/ Do_add_info
    \/ Do_update_plan_step
    \/ Do_get_current_step
    \/ Do_advance_step

SpecPlanning == InitPlanning /\ [][NextPlanning]_vars

-----------------------------------------------------------------------------
\* A GaoDeMCPClient object used on its own: a caller enters and leaves
\* connect() scopes and calls list_tools and call_tool, inside a scope or not.

\* What a call of the client gave: the exception, where it was raised, the
\* requests sent on the session, the tool name given, and whether the caller
\* was inside a connect() scope.
ClientRet(exc, site, requests, tool_name, in_scope) ==
    [raised |-> exc, site |-> site, requests |-> requests, tool_name |-> tool_name,
     in_scope |-> in_scope]

Params == [city |-> "Shanghai"]

InitClient ==
    /\ planning = Planning_init(UserInput)
    /\ last_op = "init"
    /\ last_ret = ClientRet("none", "none", <<>>, "", FALSE)
    /\ given_text = <<>>
    /\ adv_false = 0
    /\ gaode_client = GaoDeMCPClient_init
    /\ transport = "closed"
    /\ provider \in Providers
    /\ pc = "outside"
    /\ round = 0
    /\ pending = <<>>
    /\ final_answer = <<>>
    /\ events = <<>>
    /\ calls = <<>>
    /\ raised = "none"
    /\ raise_site = "none"
    /\ stop_mark = <<>>

client_frame == <<planning, given_text, adv_false, provider, round, pending, final_answer,
                  events, raised, raise_site, stop_mark>>

\* "async with client.connect():" is entered.
Do_connect ==
    /\ pc = "outside"
    /\ \E net \in {"ok", "sse_fail", "init_fail"} :
        LET r == connect_enter(gaode_client, net)
        IN  /\ gaode_client' = r.client
            /\ transport' = r.transport
            /\ pc' = IF r.raised = "none" THEN "inside" ELSE "outside"
            /\ last_ret' = ClientRet(r.raised, "connect", <<>>, "", FALSE)
    /\ last_op' = "connect"
    /\ UNCHANGED <<calls, client_frame>>

\* The body of the scope ends, normally or with an exception.
Do_leave ==
    /\ pc = "inside"
    /\ \E exc \in BOOLEAN :
        /\ gaode_client' = connect_exit(gaode_client, exc).client
        /\ transport' = connect_exit(gaode_client, exc).transport
        /\ last_ret' = ClientRet(IF exc THEN "BodyError" ELSE "none", "body", <<>>, "", TRUE)
    /\ pc' = "outside"
    /\ last_op' = "leave"
    /\ UNCHANGED <<calls, client_frame>>

\* A request on a session whose connection is closed cannot succeed.
Reachable(net_ok) == net_ok /\ transport = "open"

Do_list_tools ==
    /\ pc \in {"outside", "inside"}
    /\ Len(calls) < MaxSessionRequests
    /\ \E net_ok \in BOOLEAN :
        LET r == list_tools(gaode_client, provider, Reachable(net_ok))
        IN  /\ gaode_client' = r.client
            /\ calls' = calls \o SessionCalls(r.requests)
            /\ last_ret' = ClientRet(r.raised, r.site, r.requests, "", pc = "inside")
    /\ last_op' = "list_tools"
    /\ UNCHANGED <<transport, pc, client_frame>>

Do_call_tool ==
    /\ pc \in {"outside", "inside"}
    /\ Len(calls) + 1 < MaxSessionRequests
    /\ \E tool_name \in ToolNames, net_list \in BOOLEAN, net_call \in BOOLEAN :
        LET r == call_tool(gaode_client, tool_name, Params, provider,
                           [list |-> Reachable(net_list), call |-> Reachable(net_call)])
        IN  /\ gaode_client' = r.client
            /\ calls' = calls \o SessionCalls(r.requests)
            /\ last_ret' = ClientRet(r.raised, r.site, r.requests, tool_name, pc = "inside")
    /\ last_op' = "call_tool"
    /\ UNCHANGED <<transport, pc, client_frame>>

NextClient ==
    \/ Do_connect
    \/ Do_leave
    \/ Do_list_tools
    \/ Do_call_tool

SpecClient == InitClient /\ [][NextClient]_vars

-----------------------------------------------------------------------------
\* Two runs at once (app/main.py: one run per request of
\* run_mcp_agent_stream, interleaved by the event loop at their awaits).
\* Here the variables of a run are functions of the run, and the client
\* objects are held by identity, so that two runs may hold the same one.

Runs == {1, 2}
Other(r) == 3 - r

\* The question of run r.
user_input(r) == <<"q", ToString(r)>>

\* One GaoDeMCPClient for all the runs of the process.
GaoDeMCPClient_shared(r) == 1

\* Line 52: run constructs its GaoDeMCPClient; the identity of the object of run r.
GaoDeMCPClient_new(r) == r

TwoPlanTexts == {<<>>, <<"a", FULLSTOP>>, <<"a", FULLSTOP, "a", FULLSTOP>>}
TwoPlanningOutcomes ==
    {Failure} \cup {[ok |-> TRUE, reply |-> Reply(t, "stop", <<>>)] : t \in TwoPlanTexts}
TwoDecisionOutcomes ==
    {Failure, [ok |-> TRUE, reply |-> Reply(<<"o", "k">>, "stop", <<>>)],
     [ok |-> TRUE,
      reply |-> Reply(<<>>, "tool_calls", <<[name |-> "maps_weather", arguments |-> WeatherArgs]>>)]}
TwoFinalOutcomes == {Failure, [ok |-> TRUE, reply |-> Reply(<<"a", "n", "s">>, "stop", <<>>)]}

InitTwo ==
    /\ planning = [r \in Runs |-> Planning_init(user_input(r))]
    /\ last_op = "init"
    /\ last_ret = Ret("none", FALSE, None)
    /\ given_text = <<>>
    /\ adv_false = 0
    /\ gaode_client = [r \in Runs |-> GaoDeMCPClient_init]
    /\ transport = [r \in Runs |-> "closed"]
    /\ provider \in Providers
    /\ pc = [r \in Runs |-> "start"]
    /\ round = [r \in Runs |-> 0]
    /\ pending = [r \in Runs |-> <<>>]
    /\ final_answer = [r \in Runs |-> <<>>]
    /\ events = [r \in Runs |-> <<>>]
    /\ calls = <<>>
    /\ raised = [r \in Runs |-> "none"]
    /\ raise_site = [r \in Runs |-> "none"]
    /\ stop_mark = <<>>

two_frame == <<last_op, last_ret, given_text, adv_false, provider, calls, stop_mark>>

Set(f, r, v) == [f EXCEPT ![r] = v]

\* An exception leaves run r; in_scope: from inside its connect() scope.
TwoAbort(r, client, in_scope, exc, site) ==
    /\ raised' = Set(raised, r, exc)
    /\ raise_site' = Set(raise_site, r, site)
    /\ pc' = Set(pc, r, "done")
    /\ IF in_scope
       THEN /\ gaode_client' = Set(gaode_client, GaoDeMCPClient_new(r),
                                   connect_exit(client, TRUE).client)
            /\ transport' = Set(transport, GaoDeMCPClient_new(r),
                                connect_exit(client, TRUE).transport)
       ELSE UNCHANGED <<gaode_client, transport>>

\* Lines 51-75 of run r.
TwoPlanningCall(r) ==
    /\ pc[r] = "start"
    /\ \E net \in TwoPlanningOutcomes :
        LET res == LLMClient_call(net)
            p == set_plan_steps_from_text(planning[r], last_choice(res.ret).content)
        IN  IF res.raised # "none"
            THEN /\ TwoAbort(r, gaode_client[GaoDeMCPClient_new(r)], FALSE, res.raised,
                             "llm_planning")
                 /\ UNCHANGED <<planning, events>>
            ELSE /\ planning' = Set(planning, r, p)
                 /\ events' = Set(events, r, <<PlanHeader, PlanEvent(p), Dashes>>)
                 /\ pc' = Set(pc, r, "connect")
                 /\ UNCHANGED <<gaode_client, transport, raised, raise_site>>
    /\ UNCHANGED <<round, pending, final_answer, two_frame>>

\* Line 77 of run r.
TwoConnect(r) ==
    /\ pc[r] = "connect"
    /\ \E net \in {"ok", "sse_fail"} :
        LET c == GaoDeMCPClient_new(r)
            res == connect_enter(gaode_client[c], net)
        IN  /\ gaode_client' = Set(gaode_client, c, res.client)
            /\ transport' = Set(transport, c, res.transport)
            /\ pc' = Set(pc, r, IF res.raised # "none" THEN "done" ELSE "round")
            /\ raised' = Set(raised, r, res.raised)
            /\ raise_site' = Set(raise_site, r, IF res.raised # "none" THEN "connect" ELSE "none")
    /\ UNCHANGED <<planning, round, pending, final_answer, events, two_frame>>

\* Lines 79-83 of run r, and the end of the scope when the rounds are used up.
TwoRoundStart(r) ==
    /\ pc[r] = "round"
    /\ IF loop_has_next(round[r])
       THEN /\ round' = Set(round, r, round[r] + 1)
            /\ events' = Set(events, r,
                    events[r] \o <<Dashes, StepEvent(get_current_step(planning[r]))>>)
            /\ pc' = Set(pc, r, "decide")
       ELSE /\ pc' = Set(pc, r, "exit_scope")
            /\ UNCHANGED <<round, events>>
    /\ UNCHANGED <<planning, gaode_client, transport, pending, final_answer, raised,
                   raise_site, two_frame>>

\* Lines 85-101 of run r.
TwoDecisionCall(r) ==
    /\ pc[r] = "decide"
    /\ \E net \in TwoDecisionOutcomes :
        LET res == LLMClient_call(net)
            choice == last_choice(res.ret)
            requested == tool_calls_of(choice)
        IN  IF res.raised # "none"
            THEN /\ TwoAbort(r, gaode_client[GaoDeMCPClient_new(r)], TRUE, res.raised,
                             "llm_decide")
                 /\ UNCHANGED <<pending, events>>
            ELSE /\ pending' = Set(pending, r, requested)
                 /\ events' = Set(events, r,
                        IF requested # <<>>
                        THEN Append(events[r], ToolCallEvent(requested[1].name,
                                                             requested[1].arguments))
                        ELSE events[r])
                 /\ pc' = Set(pc, r, IF requested # <<>> THEN "invoke" ELSE "advance")
                 /\ UNCHANGED <<gaode_client, transport, raised, raise_site>>
    /\ UNCHANGED <<planning, round, final_answer, two_frame>>

\* Lines 103-116 of run r.
TwoToolInvoke(r) ==
    /\ pc[r] = "invoke"
    /\ \E net_list \in BOOLEAN :
        LET c == GaoDeMCPClient_new(r)
            parsed == json_loads(Head(pending[r]).arguments)
            ct == call_tool(gaode_client[c], Head(pending[r]).name, parsed.value, provider,
                            [list |-> net_list, call |-> TRUE])
        IN  IF parsed.raised # "none"
            THEN /\ TwoAbort(r, gaode_client[c], TRUE, parsed.raised, "json_loads")
                 /\ UNCHANGED <<planning, pending>>
            ELSE IF ct.raised # "none"
            THEN /\ TwoAbort(r, ct.client, TRUE, ct.raised, ct.site)
                 /\ UNCHANGED <<planning, pending>>
            ELSE /\ planning' = Set(planning, r, add_info(planning[r], <<"s", "u", "m">>))
                 /\ pending' = Set(pending, r, Tail(pending[r]))
                 /\ pc' = Set(pc, r, "advance")
                 /\ gaode_client' = Set(gaode_client, c, ct.client)
                 /\ UNCHANGED <<transport, raised, raise_site>>
    /\ UNCHANGED <<round, final_answer, events, two_frame>>

\* Lines 121-124 of run r.
TwoAdvance(r) ==
    /\ pc[r] = "advance"
    /\ LET adv == advance_step(planning[r])
       IN  /\ planning' = Set(planning, r, adv.obj)
           /\ pc' = Set(pc, r, after_advance(adv.ret))
           /\ events' = Set(events, r,
                    IF adv.ret THEN events[r] ELSE Append(events[r], NoNextEvent))
    /\ UNCHANGED <<gaode_client, transport, round, pending, final_answer, raised,
                   raise_site, two_frame>>

\* Lines 125-135 of run r.
TwoFinalCall(r) ==
    /\ pc[r] = "final"
    /\ \E net \in TwoFinalOutcomes :
        LET res == LLMClient_call(net)
        IN  IF res.raised # "none"
            THEN /\ TwoAbort(r, gaode_client[GaoDeMCPClient_new(r)], TRUE, res.raised,
                             "llm_final")
                 /\ UNCHANGED final_answer
            ELSE /\ final_answer' = Set(final_answer, r, last_choice(res.ret).content)
                 /\ pc' = Set(pc, r, after_final)
                 /\ UNCHANGED <<gaode_client, transport, raised, raise_site>>
    /\ UNCHANGED <<planning, round, pending, events, two_frame>>

\* The end of the scope of run r, and lines 137-141.
TwoExitScope(r) ==
    /\ pc[r] = "exit_scope"
    /\ LET c == GaoDeMCPClient_new(r)
       IN  /\ gaode_client' = Set(gaode_client, c, connect_exit(gaode_client[c], FALSE).client)
           /\ transport' = Set(transport, c, connect_exit(gaode_client[c], FALSE).transport)
    /\ pc' = Set(pc, r, "done")
    /\ IF falsy(final_answer[r])
       THEN /\ raised' = Set(raised, r, "LLMInvokeError")
            /\ raise_site' = Set(raise_site, r, "exhausted")
            /\ UNCHANGED events
       ELSE /\ events' = Set(events, r, Append(events[r], FinalEvent(final_answer[r])))
            /\ UNCHANGED <<raised, raise_site>>
    /\ UNCHANGED <<planning, round, pending, final_answer, two_frame>>

NextTwo ==
    \E r \in Runs :
        \/ TwoPlanningCall(r)
        \/ TwoConnect(r)
        \/ TwoRoundStart(r)
        \/ TwoDecisionCall(r)
        \/ TwoToolInvoke(r)
        \/ TwoAdvance(r)
        \/ TwoFinalCall(r)
        \/ TwoExitScope(r)

SpecTwo == InitTwo /\ [][NextTwo]_vars

-----------------------------------------------------------------------------
\* Properties of a run.

NoFinalEvent == \A i \in 1..Len(events) : events[i][1] # "final"
CallsAt(site) == {k \in 1..Len(calls) : calls[k].site = site}
InScope == {"round", "decide", "tool", "invoke", "advance", "final", "exit_scope"}

\* C1: at most 6 rounds are started; a run in which advance_step returned
\* True in each of 6 rounds has run exactly 6 rounds with 6 decision calls,
\* yields no final answer, and ends with the error raised for want of an
\* answer within the round budget.
C1_RoundBudget ==
    /\ round <= 6
    /\ Cardinality(CallsAt("decide")) <= 6
    /\ planning.current_step_index >= 6 =>
        /\ round = 6
        /\ Cardinality(CallsAt("decide")) = 6
        /\ pc \in {"round", "exit_scope", "finish", "done"}
        /\ stop_mark = <<>>
        /\ NoFinalEvent
        /\ pc = "done" => raised = "LLMInvokeError" /\ raise_site = "exhausted"

C1_Witness ==
    /\ pc = "done"
    /\ planning.current_step_index = 6
    /\ round = 6
    /\ raise_site = "exhausted"
    /\ \A k \in 1..Len(calls) : calls[k].outcome = "ok"

\* C2: the connection of the tool session is open only inside the connect()
\* scope of run, and is closed in every terminal state of the run, whichever
\* way the run ended.
C2_SessionReleased ==
    /\ pc = "done" => transport = "closed"
    /\ transport = "open" => pc \in InScope

C2_Witness ==
    /\ pc = "done"
    /\ raise_site = "name_check"
    /\ \E k \in CallsAt("connect") : calls[k].outcome = "ok"
    /\ transport = "closed"

ProviderNames == {provider[i].name : i \in 1..Len(provider)}
ParseOk(arguments) == json_loads(arguments).raised = "none"
IsToolCallEvent(i) == events[i][1] = "tool_call"
\* The calls made after the event number i was yielded.
CallsAfterEvent(i) == {k \in 1..Len(calls) : calls[k].nevents >= i}

\* C3, as claimed: a request for a tool the session does not list (with
\* arguments that parse) ends the run with ValueError, without a call_tool
\* request on the session, without an observation and without a final answer.
C3_AsStated ==
    \A i \in 1..Len(events) :
        (/\ IsToolCallEvent(i)
         /\ events[i][2] \notin ProviderNames
         /\ ParseOk(events[i][3])
         /\ ~(pc = "invoke" /\ i = Len(events))
         /\ raise_site # "list_tools_request")
        => /\ pc = "done"
           /\ i = Len(events)
           /\ raised = "ValueError"
           /\ \A k \in CallsAfterEvent(i) : calls[k].site \notin {"call_tool", "summarize"}
           /\ planning.info_list = <<>>
           /\ NoFinalEvent

\* The decision calls whose reply asks for exactly one tool call, of a tool
\* the session lists, with arguments that parse.
OneListedRequest(k) ==
    /\ calls[k].site = "decide"
    /\ calls[k].outcome = "ok"
    /\ calls[k].finish_reason = "tool_calls"
    /\ Len(calls[k].requested) = 1
    /\ calls[k].requested[1].name \in ProviderNames
    /\ ParseOk(calls[k].requested[1].arguments)
\* The calls of the round of decision call k, after that call.
RoundCalls(k) ==
    {j \in (k + 1)..Len(calls) : \A d \in (k + 1)..j : calls[d].site # "decide"}
RoundOver(k) ==
    \/ \E j \in (k + 1)..Len(calls) : calls[j].site \in {"decide", "final"}
    \/ pc \in {"advance", "round", "final", "exit_scope", "finish", "done"}

\* C4, as claimed: in a round whose reply asks for one listed tool with
\* arguments that parse, and with no external call failing, the session gets
\* exactly one call_tool request, with that name and the parsed arguments, one
\* observation is appended, and one tool-call event is yielded before it.
C4_AsStated ==
    \A k \in 1..Len(calls) :
        (/\ OneListedRequest(k)
         /\ RoundOver(k)
         /\ \A j \in 1..Len(calls) : calls[j].outcome = "ok")
        => /\ \E j \in RoundCalls(k) :
                /\ calls[j].site = "call_tool"
                /\ calls[j].content =
                        [tool |-> calls[k].requested[1].name,
                         args |-> json_loads(calls[k].requested[1].arguments).value]
                /\ calls[j].nevents = calls[k].nevents + 1
                /\ IsToolCallEvent(calls[j].nevents)
                /\ \A j2 \in RoundCalls(k) : calls[j2].site = "call_tool" => j2 = j
           /\ Cardinality({j \in RoundCalls(k) : calls[j].site = "summarize"}) = 1
           /\ Len(planning.info_list) >= 1

\* C7: once advance_step has returned False, no further round starts, the
\* only later call is the final-answer call, made once, on the rendered plan
\* and without tools; the final answer is yielded at most once, as the last
\* event of the stream.
C7_FinalizeOnce ==
    /\ stop_mark # <<>> =>
        /\ round = stop_mark.round
        /\ pc \in {"final", "exit_scope", "finish", "done"}
        /\ Len(calls) <= stop_mark.calls + 1
        /\ pc # "final" => Len(calls) = stop_mark.calls + 1
        /\ Len(calls) = stop_mark.calls + 1 =>
            /\ calls[Len(calls)].api = "llm"
            /\ calls[Len(calls)].site = "final"
            /\ calls[Len(calls)].content = Planning_str(planning)
            /\ calls[Len(calls)].tools = <<>>
    /\ \A i \in 1..Len(events) :
        events[i][1] = "final" => i = Len(events) /\ pc = "done" /\ stop_mark # <<>>

C7_Witness ==
    /\ pc = "done"
    /\ stop_mark # <<>>
    /\ round = 2
    /\ Len(planning.plan_steps) = 2
    /\ events[Len(events)][1] = "final"

\* C8, as claimed: the error for want of an answer within the round budget is
\* raised only after 6 rounds in none of which advance_step returned False,
\* and a run whose final-answer call returned ends with a final-answer event.
C8_AsStated ==
    /\ raise_site = "exhausted" => round = 6 /\ stop_mark = <<>>
    /\ (pc = "done" /\ \E k \in CallsAt("final") : calls[k].outcome = "ok")
        => ~NoFinalEvent /\ raise_site # "exhausted"

\* C9, as claimed: the error of a run that used up its 6 rounds is of another
\* kind than the error of a failed model call.
C9_AsStated ==
    (raise_site = "exhausted" /\ round = 6 /\ stop_mark = <<>>)
        => raised # LLMClient_call(Failure).raised

\* C10: a failed external call is the last call of the run: the run is over,
\* the error is with the caller, nothing was yielded after the call was made,
\* and there is no final-answer event.
C10_FailureAborts ==
    \A k \in 1..Len(calls) :
        calls[k].outcome = "fail" =>
            /\ k = Len(calls)
            /\ pc = "done"
            /\ raised = (IF calls[k].api = "llm" THEN "LLMInvokeError"
                         ELSE IF calls[k].site = "connect" THEN "ConnectError"
                         ELSE "McpError")
            /\ Len(events) = calls[k].nevents
            /\ NoFinalEvent

C10_Witness ==
    /\ pc = "done"
    /\ round = 2
    /\ calls # <<>>
    /\ calls[Len(calls)].site = "decide"
    /\ calls[Len(calls)].outcome = "fail"
    /\ raised = "LLMInvokeError"

AllCallsOk == \A k \in 1..Len(calls) : calls[k].outcome = "ok"
AllRequestsParse ==
    \A k \in 1..Len(calls) : \A i \in 1..Len(calls[k].requested) :
        ParseOk(calls[k].requested[i].arguments)

\* C11, as claimed: a run whose plan is empty (no step, cursor -1) does not
\* fail when no external call fails: it announces and invokes no tool, appends
\* no observation, starts no second round, and its final-answer request
\* carries the empty observation list.
C11_AsStated ==
    (/\ pc \notin {"start"}
     /\ planning.plan_steps = <<>>
     /\ \E k \in CallsAt("planning") : calls[k].outcome = "ok"
     /\ AllCallsOk
     /\ AllRequestsParse
     /\ raise_site # "exhausted")
    => /\ planning.current_step_index = -1
       /\ raised = "none"
       /\ \A i \in 1..Len(events) : ~IsToolCallEvent(i)
       /\ \A k \in 1..Len(calls) : calls[k].site \notin {"list_tools", "call_tool", "summarize"}
       /\ planning.info_list = <<>>
       /\ round <= 1
       /\ \A k \in CallsAt("final") : calls[k].content.info = <<"(none)">>

\* The number of events yielded when the round of decision call k was over.
RoundEnd(k) ==
    IF \E d \in (k + 1)..Len(calls) : calls[d].site = "decide"
    THEN calls[CHOOSE d \in (k + 1)..Len(calls) :
                   /\ calls[d].site = "decide"
                   /\ \A j \in (k + 1)..(d - 1) : calls[j].site # "decide"].nevents
    ELSE Len(events)
\* The tool calls announced in the round of decision call k, in order.
Announced(k) ==
    LET evs == SelectSeq(SubSeq(events, calls[k].nevents + 1, RoundEnd(k)),
                         LAMBDA e : e[1] = "tool_call")
    IN  [i \in 1..Len(evs) |-> [name |-> evs[i][2], arguments |-> evs[i][3]]]

\* C12, as claimed: when a round is over, the tool-call events yielded in it
\* are the tool calls of the round's decision reply, as many and in the same
\* order (no external call failing, every requested tool listed by the
\* session, all arguments well formed).
C12_AsStated ==
    \A k \in CallsAt("decide") :
        (/\ RoundOver(k)
         /\ AllCallsOk
         /\ AllRequestsParse
         /\ \A i \in 1..Len(calls[k].requested) : calls[k].requested[i].name \in ProviderNames)
        => Announced(k) = calls[k].requested

Kind(i) == events[i][1]
EventsOf(kind) == {i \in 1..Len(events) : Kind(i) = kind}
\* Where the call of a tool by name may fail (lines 103-105).
InvokeSites == {"json_loads", "session_check", "list_tools_request", "name_check",
                "call_tool_request"}

\* C20: the events of a run come in the order of its steps. The three plan
\* events come first and only there; every round opens with its step
\* announcement, its tool-call announcements follow it and come before the
\* next round's; a tool call is announced right before it is invoked; the
\* no-next-step event closes the rounds and the final answer is the last
\* event. The external calls are made one after the other, each at or after the
\* events of the one before.
C20_EventOrder ==
    /\ events # <<>> =>
        /\ Len(events) >= 3
        /\ SubSeq(events, 1, 3) = <<PlanHeader, events[2], Dashes>>
        /\ Kind(2) = "plan"
    /\ \A i \in 1..Len(events) :
        /\ Kind(i) \in {"plan_header", "plan"} => i <= 2
        /\ (Kind(i) = "dashes" /\ i > 3) => (i < Len(events) /\ Kind(i + 1) = "step")
        /\ Kind(i) = "step" => (i > 4 /\ Kind(i - 1) = "dashes")
        /\ Kind(i) = "tool_call" => Kind(i - 1) \in {"step", "tool_call"}
        /\ Kind(i) = "no_next" =>
            /\ Kind(i - 1) \in {"step", "tool_call"}
            /\ \A j \in (i + 1)..Len(events) : Kind(j) = "final"
        /\ Kind(i) = "final" => (i = Len(events) /\ Kind(i - 1) = "no_next")
    /\ Cardinality(EventsOf("step")) = round
    /\ Cardinality(EventsOf("no_next")) <= 1
    /\ pc = "invoke" =>
        events[Len(events)] = ToolCallEvent(Head(pending).name, Head(pending).arguments)
    /\ raise_site \in InvokeSites => Kind(Len(events)) = "tool_call"
    /\ \A k \in 1..Len(calls) :
        /\ calls[k].site \in {"list_tools", "call_tool", "summarize"} =>
            Kind(calls[k].nevents) = "tool_call"
        /\ calls[k].site = "call_tool" => calls[k].content.tool = events[calls[k].nevents][2]
        /\ calls[k].site = "planning" => (k = 1 /\ calls[k].nevents = 0)
        /\ calls[k].site = "connect" => (k = 2 /\ calls[k].nevents = 3)
        /\ calls[k].site = "decide" => Kind(calls[k].nevents) = "step"
        /\ calls[k].site = "final" => Kind(calls[k].nevents) = "no_next"
        /\ \A j \in 1..(k - 1) : calls[j].nevents <= calls[k].nevents

C20_Witness ==
    /\ pc = "done"
    /\ round = 3
    /\ Kind(Len(events)) = "final"
    /\ Kind(Len(events) - 1) = "no_next"
    /\ Cardinality(EventsOf("step")) = 3
    /\ Len(calls) = 6

\* C21: a tool call whose arguments json.loads cannot parse ends the run
\* where it stands: its event is the last one yielded, the error of the
\* parse is with the caller, no call (on the session or to the model) was
\* made after the event, and no observation was appended.
C21_BadArgsAbort ==
    \A i \in 1..Len(events) :
        (/\ IsToolCallEvent(i)
         /\ events[i][3] = BadArgs
         /\ ~(pc = "invoke" /\ i = Len(events)))
        => /\ pc = "done"
           /\ i = Len(events)
           /\ raised = "JSONDecodeError"
           /\ raise_site = "json_loads"
           /\ CallsAfterEvent(i) = {}
           /\ calls[Len(calls)].site = "decide"
           /\ planning.info_list = <<>>
           /\ transport = "closed"

C21_Witness ==
    /\ pc = "done"
    /\ raised = "JSONDecodeError"
    /\ round = 2
    /\ events[Len(events)] = ToolCallEvent("maps_weather", BadArgs)
    /\ Len(pending) = 2

\* The summarization calls of the round of decision call k, in order.
Summaries(k) ==
    SelectSeq([j \in 1..Len(calls) |-> [at |-> j, call |-> calls[j]]],
              LAMBDA e : e.at \in RoundCalls(k) /\ e.call.site = "summarize")

\* C22, as claimed: in a round whose reply holds several requests (tools
\* listed, arguments well formed, no external call failing) every request is
\* invoked and summarised, in the order of the reply, and the summarization
\* call of a request carries the observations of the requests before it.
C22_AsStated ==
    \A k \in CallsAt("decide") :
        (/\ RoundOver(k)
         /\ Len(calls[k].requested) >= 2
         /\ AllCallsOk
         /\ \A i \in 1..Len(calls[k].requested) :
                /\ calls[k].requested[i].name \in ProviderNames
                /\ calls[k].requested[i].arguments = WeatherArgs)
        => /\ Len(Summaries(k)) = Len(calls[k].requested)
           /\ \A i \in 1..Len(Summaries(k)) :
                /\ Summaries(k)[i].call.content.tool = calls[k].requested[i].name
                /\ HasKey(Summaries(k)[i].call.content, "info")
                /\ Len(Summaries(k)[i].call.content.info) >= i - 1

\* What a rendering of plan p has to hold: the requirement, the
\* observations in the order they were added, the step under the cursor.
Rendered(p) ==
    [requirement |-> p.requirement,
     info |-> IF Len(p.info_list) = 0 THEN <<"(none)">> ELSE p.info_list,
     next_step |-> IF p.current_step_index \in 0..(Len(p.plan_steps) - 1)
                      /\ p.plan_steps[p.current_step_index + 1] # <<>>
                   THEN p.plan_steps[p.current_step_index + 1] ELSE <<"(unset)">>]

\* C23: a decision call and a final-answer call carry the rendering of the
\* plan as it is when the call is made (requirement, all observations so far,
\* current step); a decision call carries the whole tool catalog, every other
\* call to the model carries no tools.
C23_CallContext ==
    [][\A k \in (Len(calls) + 1)..Len(calls') :
        /\ calls'[k].site \in {"decide", "final"} =>
            /\ calls'[k].content = Rendered(planning)
            /\ calls'[k].content.requirement = UserInput
        /\ calls'[k].site = "decide" =>
            /\ calls'[k].tools = get_default_tools
            /\ Len(calls'[k].tools) = 12
        /\ (calls'[k].api = "llm" /\ calls'[k].site # "decide") => calls'[k].tools = <<>>]_vars

C23_Witness ==
    /\ pc = "exit_scope"
    /\ round = 2
    /\ Len(planning.plan_steps) = 2
    /\ calls[Len(calls)].site = "final"
    /\ calls[Len(calls)].content.next_step = planning.plan_steps[2]
    /\ calls[Len(calls) - 1].site = "decide"
    /\ calls[Len(calls) - 1].content.next_step = planning.plan_steps[2]

Min(a, b) == IF a < b THEN a ELSE b
\* The steps announced so far, in order.
AnnouncedSteps ==
    LET evs == SelectSeq(events, LAMBDA e : e[1] = "step")
    IN  [i \in 1..Len(evs) |-> evs[i][2]]
AllRequestsListed ==
    \A k \in 1..Len(calls) : \A i \in 1..Len(calls[k].requested) :
        calls[k].requested[i].name \in ProviderNames

\* C24, as claimed: a run on a plan of n >= 1 steps in which no external call
\* fails (the tools asked for are listed, their arguments well formed) has
\* run min(n, 6) rounds when it is over, and has announced the first
\* min(n, 6) steps of the plan, each once and in the order of the plan.
C24_AsStated ==
    (/\ pc = "done"
     /\ Len(planning.plan_steps) >= 1
     /\ AllCallsOk
     /\ AllRequestsParse
     /\ AllRequestsListed)
    => /\ round = Min(Len(planning.plan_steps), max_rounds)
       /\ AnnouncedSteps = SubSeq(planning.plan_steps, 1, round)
       /\ planning.current_step_index = Min(Len(planning.plan_steps) - 1, max_rounds)

\* The part of C24 that holds: the same for the runs in which no reply asks for a tool.
C24_WithoutTools ==
    (/\ pc = "done"
     /\ Len(planning.plan_steps) >= 1
     /\ AllCallsOk
     /\ \A k \in 1..Len(calls) : calls[k].requested = <<>>)
    => /\ round = Min(Len(planning.plan_steps), max_rounds)
       /\ AnnouncedSteps = SubSeq(planning.plan_steps, 1, round)
       /\ planning.current_step_index = Min(Len(planning.plan_steps) - 1, max_rounds)

\* The calls of a site that returned.
Completed(site) == {k \in CallsAt(site) : calls[k].outcome = "ok"}

\* C25: the plan holds as many observations as tool invocations were made
\* and summarised, each summary following the invocation it is about; a round
\* whose reply has another finish reason than tool_calls announces and
\* invokes no tool and adds no observation; and every round that gets as far
\* calls advance_step once: inside round r the cursor has been moved r - 1
\* times, after it r times, unless advance_step returned False.
C25_ObservationCount ==
    /\ Len(planning.info_list) = Cardinality(Completed("summarize"))
    /\ \A k \in Completed("summarize") :
            k > 1 /\ calls[k - 1].site = "call_tool" /\ calls[k - 1].outcome = "ok"
    /\ \A k \in Completed("decide") :
        calls[k].finish_reason # "tool_calls" =>
            /\ Announced(k) = <<>>
            /\ \A j \in RoundCalls(k) : calls[j].site = "final"
            /\ k = Len(calls) => (pc \notin {"tool", "invoke"} /\ raise_site \notin InvokeSites)
            /\ k = Len(calls) => pending = <<>>
    /\ planning.plan_steps # <<>> =>
        /\ pc \in {"decide", "tool", "invoke", "advance"} =>
                planning.current_step_index = round - 1
        /\ (pc = "round" /\ round >= 1) => planning.current_step_index = round
        /\ pc = "final" =>
                /\ planning.current_step_index = round - 1
                /\ round = Len(planning.plan_steps)

C25_Witness ==
    /\ pc = "round"
    /\ round = 2
    /\ planning.current_step_index = 2
    /\ calls[Len(calls)].site = "decide"
    /\ calls[Len(calls)].finish_reason = "length"
    /\ planning.info_list = <<>>

\* C27: the planning call is the first call of a run, made before anything
\* is yielded and before connect(), and it carries no tools; when it fails
\* the run is over with its error, having yielded nothing and never having
\* opened a session.
C27_PlanningFirst ==
    /\ calls # <<>> =>
        /\ calls[1].site = "planning"
        /\ calls[1].api = "llm"
        /\ calls[1].tools = <<>>
        /\ calls[1].nevents = 0
    /\ \A k \in 1..Len(calls) :
        /\ calls[k].site = "planning" => k = 1
        /\ calls[k].site = "connect" => (k = 2 /\ calls[1].outcome = "ok")
    /\ pc \in {"start", "yield_plan", "connect"} =>
        (transport = "closed" /\ gaode_client = GaoDeMCPClient_init)
    /\ (calls # <<>> /\ calls[1].outcome = "fail") =>
        /\ pc = "done"
        /\ raised = "LLMInvokeError"
        /\ raise_site = "llm_planning"
        /\ events = <<>>
        /\ Len(calls) = 1
        /\ transport = "closed"
        /\ gaode_client = GaoDeMCPClient_init

C27_Witness ==
    /\ pc = "done"
    /\ Len(calls) = 1
    /\ calls[1].site = "planning"
    /\ calls[1].outcome = "fail"
    /\ raised = "LLMInvokeError"
    /\ events = <<>>
    /\ gaode_client.session = "None"

\* The descriptors of a catalog that go by a name.
Named(catalog, name) == {i \in 1..Len(catalog) : catalog[i].function.name = name}

\* C29: no two descriptors of get_default_tools() have the same function
\* name: in every catalog a decision call carries, a name picks at most one
\* descriptor, and the twelve descriptors have twelve names.
C29_UniqueNames ==
    /\ \A i, j \in 1..Len(get_default_tools) :
        get_default_tools[i].function.name = get_default_tools[j].function.name => i = j
    /\ Cardinality({get_default_tools[i].function.name : i \in 1..Len(get_default_tools)}) = 12
    /\ \A k \in CallsAt("decide") :
        /\ \A i \in 1..Len(calls[k].tools) :
                Cardinality(Named(calls[k].tools, calls[k].tools[i].function.name)) = 1
        /\ \A i \in 1..Len(calls[k].requested) :
                Cardinality(Named(calls[k].tools, calls[k].requested[i].name)) <= 1

C29_Witness ==
    /\ pc = "tool"
    /\ calls[Len(calls)].site = "decide"
    /\ Len(calls[Len(calls)].tools) = 12
    /\ Head(pending).name = "maps_weather"
    /\ Named(calls[Len(calls)].tools, Head(pending).name) = {12}

-----------------------------------------------------------------------------
\* Properties of a Planning object.

RECURSIVE Flatten(_)
Flatten(seqs) == IF seqs = <<>> THEN <<>> ELSE Head(seqs) \o Flatten(Tail(seqs))
RECURSIVE Without(_, _)
Without(s, chars) ==
    IF s = <<>> THEN <<>>
    ELSE (IF Head(s) \in chars THEN <<>> ELSE <<Head(s)>>) \o Without(Tail(s), chars)
\* The positions of a text where a step starts: a character that is neither
\* white space nor the delimiter, with only white space between it and the
\* delimiter before it (or the start of the text).
StepStarts(text) ==
    {i \in 1..Len(text) :
        /\ text[i] \notin Whitespace \cup {FULLSTOP}
        /\ \E b \in 0..(i - 1) :
            /\ b = 0 \/ text[b] = FULLSTOP
            /\ \A j \in (b + 1)..(i - 1) : text[j] \in Whitespace}

\* C5: after set_plan_steps_from_text(T) no step is empty or white space
\* only, the steps are pieces of the delimiter-free segments of T that hold a
\* character other than white space, one per such segment and in the order
\* of T, and the cursor is 0 if there is a step and -1 if there is none;
\* Scenario A gives its two steps and cursor 0.
C5_PlanFromText ==
    last_op = "set_plan_steps_from_text" =>
        LET st == planning.plan_steps
        IN  /\ \A i \in 1..Len(st) :
                /\ st[i] # <<>>
                /\ \E j \in 1..Len(st[i]) : st[i][j] \notin Whitespace
                /\ \A j \in 1..Len(st[i]) : st[i][j] # FULLSTOP
                /\ \E o \in 0..(Len(given_text) - Len(st[i])) :
                        SubSeq(given_text, o + 1, o + Len(st[i])) = st[i]
            /\ Len(st) = Cardinality(StepStarts(given_text))
            /\ Without(Flatten(st), Whitespace)
                    = Without(given_text, Whitespace \cup {FULLSTOP})
            /\ planning.current_step_index = 0 <=> st # <<>>
            /\ planning.current_step_index \in {0, -1}
            /\ given_text = ScenarioA =>
                    st = <<<<"x", "t", "q">>, <<"x", "j", "d">>>>

C5_Witness ==
    /\ last_op = "set_plan_steps_from_text"
    /\ given_text = ScenarioA
    /\ planning.plan_steps = <<<<"x", "t", "q">>, <<"x", "j", "d">>>>
    /\ planning.current_step_index = 0

\* C6: a call other than set_plan_steps and set_plan_steps_from_text never
\* lowers the cursor, and after advance_step has returned False every
\* advance_step returns False until the plan is set again.
C6_AdvanceMonotonic ==
    [][last_op' \notin {"set_plan_steps", "set_plan_steps_from_text"} =>
            /\ planning'.current_step_index >= planning.current_step_index
            /\ (adv_false > 0 /\ last_op' = "advance_step") => ~last_ret'.bool]_vars

C6_Witness ==
    /\ adv_false = 2
    /\ last_op = "advance_step"
    /\ planning.current_step_index = 2
    /\ \E i \in 1..Len(planning.plan_steps) : planning.plan_steps[i] = NewStep

\* C13: the cursor of a Planning object is in [-1, len(steps)), it is -1
\* exactly when there is no step, and get_current_step returns steps[cursor]
\* when 0 <= cursor < len(steps) and None otherwise.
C13_CursorInRange ==
    LET cursor == planning.current_step_index
        steps == planning.plan_steps
    IN  /\ cursor \in -1..(Len(steps) - 1)
        /\ cursor >= 0 => cursor < Len(steps)
        /\ cursor = -1 <=> steps = <<>>
        /\ last_op = "get_current_step" =>
            /\ last_ret.raised = "none"
            /\ (0 <= cursor /\ cursor < Len(steps)) => last_ret.step = steps[cursor + 1]
            /\ ~(0 <= cursor /\ cursor < Len(steps)) => last_ret.step = None

C13_Witness ==
    /\ last_op = "get_current_step"
    /\ planning.current_step_index = 1
    /\ Len(planning.plan_steps) = 3
    /\ last_ret.step = <<"a", " ">>

IsPrefix(s, t) == Len(s) <= Len(t) /\ SubSeq(t, 1, Len(s)) = s

\* C14: no call removes, moves or rewrites an entry of info_list (the list
\* before a call is a prefix of the list after it), add_info puts exactly the
\* text it is given at the end, and no call changes the requirement.
C14_AppendOnly ==
    [][/\ planning'.requirement = planning.requirement
       /\ IsPrefix(planning.info_list, planning'.info_list)
       /\ last_op' = "add_info" =>
            planning'.info_list = planning.info_list \o <<Info(planning)>>
       /\ last_op' # "add_info" => planning'.info_list = planning.info_list]_vars

C14_Witness ==
    /\ last_op = "add_info"
    /\ planning.info_list = <<<<"i", "1">>, <<"i", "2">>>>
    /\ planning.plan_steps # <<>>
    /\ planning.requirement = UserInput

NoDelimiter(text) == \A i \in 1..Len(text) : text[i] # FULLSTOP
Blank(text) == \A i \in 1..Len(text) : text[i] \in Whitespace
AllCandidatesBlank(text) == \A i \in 1..Len(text) : text[i] \in Whitespace \cup {FULLSTOP}

\* C18, as claimed: a plan text without the delimiter, and a plan text whose
\* candidates are all empty, leave no step and the cursor at -1.
C18_AsStated ==
    (last_op = "set_plan_steps_from_text"
        /\ (NoDelimiter(given_text) \/ AllCandidatesBlank(given_text)))
    => planning.plan_steps = <<>> /\ planning.current_step_index = -1

\* C18, amended: set_plan_steps_from_text leaves no step and the cursor at -1
\* exactly for the texts whose candidates are all empty or white space; a
\* text without the delimiter that is not blank is taken as one step, with
\* the cursor at 0.
C18_BlankTextEmptyPlan ==
    last_op = "set_plan_steps_from_text" =>
        /\ AllCandidatesBlank(given_text) <=>
                (planning.plan_steps = <<>> /\ planning.current_step_index = -1)
        /\ (NoDelimiter(given_text) /\ ~Blank(given_text)) =>
                /\ Len(planning.plan_steps) = 1
                /\ planning.current_step_index = 0

C18_Witness ==
    /\ last_op = "set_plan_steps_from_text"
    /\ given_text = <<FULLSTOP, " ", FULLSTOP>>
    /\ planning.plan_steps = <<>>
    /\ planning.current_step_index = -1

\* C26: what the methods of Planning leave alone. advance_step returning
\* False changes nothing, returning True it adds 1 to the cursor and changes
\* nothing else; add_info changes info_list only; update_plan_step with an
\* index in [0, len(steps)) overwrites that entry and nothing else, with
\* another index it raises IndexError and changes nothing.
C26_Frame ==
    [][/\ (last_op' = "advance_step" /\ ~last_ret'.bool) => planning' = planning
       /\ (last_op' = "advance_step" /\ last_ret'.bool) =>
            /\ planning'.current_step_index = planning.current_step_index + 1
            /\ [planning' EXCEPT !.current_step_index = planning.current_step_index] = planning
       /\ last_op' = "add_info" =>
            /\ planning'.info_list # planning.info_list
            /\ [planning' EXCEPT !.info_list = planning.info_list] = planning
       /\ last_op' = "update_plan_step" =>
            LET index == last_ret'.step[1]
                steps == planning.plan_steps
            IN  IF index \in 0..(Len(steps) - 1)
                THEN /\ last_ret'.raised = "none"
                     /\ Len(planning'.plan_steps) = Len(steps)
                     /\ planning'.plan_steps[index + 1] = NewStep
                     /\ \A i \in 1..Len(steps) :
                            i # index + 1 => planning'.plan_steps[i] = steps[i]
                     /\ [planning' EXCEPT !.plan_steps = steps] = planning
                ELSE /\ last_ret'.raised = "IndexError"
                     /\ planning' = planning]_vars

C26_Witness ==
    /\ last_op = "update_plan_step"
    /\ last_ret.raised = "none"
    /\ last_ret.step = <<1>>
    /\ planning.plan_steps = <<<<"a">>, NewStep, <<>>>>
    /\ planning.current_step_index = 2
    /\ planning.info_list # <<>>

-----------------------------------------------------------------------------
\* Properties of a GaoDeMCPClient object.

\* C16, as claimed: list_tools and call_tool called outside a connect() scope
\* (before the first one, or after one was left in whatever way) raise the
\* error of the session check and send no request.
C16_AsStated ==
    (last_op \in {"list_tools", "call_tool"} /\ ~last_ret.in_scope)
    => /\ last_ret.raised = "RuntimeError"
       /\ last_ret.site = "session_check"
       /\ last_ret.requests = <<>>

\* C17, as claimed: call_tool called inside a connect() scope with a name the
\* server does not list fails without having sent a request, neither a tool
\* call nor a tool listing.
C17_AsStated ==
    (/\ last_op = "call_tool"
     /\ last_ret.in_scope
     /\ last_ret.tool_name \notin ProviderNames)
    => /\ last_ret.raised # "none"
       /\ last_ret.requests = <<>>

Lists(requests) == \E i \in 1..Len(requests) : requests[i].request = "list_tools"
\* The names of a list of tools in the form given to the model, in order.
CachedNames(tools) == [i \in 1..Len(tools) |-> tools[i].function.name]

\* C28: the tool list of a client is cached. A call_tool in a connected
\* session asks the server for the list exactly when the cache is empty; a
\* list that came back with a tool in it fills the cache, and a filled cache
\* is never emptied, so that no later call_tool asks again. A list_tools call
\* that returns leaves in the cache the list of the provider, the same at
\* every call; a call that fails leaves the cache as it was.
C28_ToolCache ==
    [][/\ (last_op' = "call_tool" /\ last_ret'.in_scope) =>
            (Lists(last_ret'.requests) <=> gaode_client._tools = <<>>)
       /\ (last_op' \in {"call_tool", "list_tools"} /\ Lists(last_ret'.requests)) =>
            IF last_ret'.requests[1].outcome = "ok"
            THEN /\ Len(gaode_client'._tools) = Len(provider)
                 /\ CachedNames(gaode_client'._tools)
                        = [i \in 1..Len(provider) |-> provider[i].name]
                 /\ gaode_client._tools # <<>> => gaode_client'._tools = gaode_client._tools
            ELSE gaode_client'._tools = gaode_client._tools
       /\ ~Lists(last_ret'.requests) => gaode_client'._tools = gaode_client._tools
       /\ gaode_client._tools # <<>> => gaode_client'._tools # <<>>]_vars

C28_Witness ==
    /\ last_op = "call_tool"
    /\ last_ret.in_scope
    /\ last_ret.requests = <<>>
    /\ Len(gaode_client._tools) = 2
    /\ Len(calls) = 1
    /\ calls[1].site = "list_tools"

\* The tool a converted descriptor was made from, if it has the fixed shape.
Recovered(param) ==
    [name |-> param.function.name, description |-> param.function.description,
     inputSchema |-> param.function.parameters]

\* C30: the converted list a client holds after a listing has the length and
\* the order of the server's list; each of its records has the keys type and
\* function, with type "function" and function of the keys name, description
\* and parameters, equal to the name, the description and the input schema of
\* the tool at the same place, so that the tool is recovered from the record;
\* and two different lists are never converted to the same list.
C30_ConvertRoundTrip ==
    /\ gaode_client._tools # <<>> =>
        /\ Len(gaode_client._tools) = Len(provider)
        /\ \A i \in 1..Len(provider) :
            LET param == gaode_client._tools[i]
            IN  /\ DOMAIN param = {"type", "function"}
                /\ param.type = "function"
                /\ DOMAIN param.function = {"name", "description", "parameters"}
                /\ param.function.name = provider[i].name
                /\ param.function.description = provider[i].description
                /\ param.function.parameters = provider[i].inputSchema
                /\ Recovered(param) = provider[i]
    /\ \A p, q \in Providers :
        convert_tools_to_openai_params(p) = convert_tools_to_openai_params(q) => p = q
    /\ \A p \in Providers : Len(convert_tools_to_openai_params(p)) = Len(p)

C30_Witness ==
    /\ last_op = "list_tools"
    /\ last_ret.raised = "none"
    /\ Len(gaode_client._tools) = 2
    /\ gaode_client._tools[1].function.name = "maps_weather"
    /\ gaode_client._tools[2].function.name = "maps_geo"
    /\ gaode_client._tools[2].function.parameters = GeoTool.inputSchema

-----------------------------------------------------------------------------
\* Properties of two runs at once.

\* All that run r holds and shows: its plan, its client and connection, its
\* position, its events and its outcome.
RunView(r) ==
    <<planning[r], gaode_client[GaoDeMCPClient_new(r)], transport[GaoDeMCPClient_new(r)],
      pc[r], round[r], pending[r], final_answer[r], events[r], raised[r], raise_site[r]>>

\* C19: two interleaved runs share no state. The plan of each run holds its
\* own requirement; each run has a client object of its own, whose connection
\* is open exactly while that run is inside its connect() scope; and a step
\* of one run (its release and its failure among them) changes nothing of
\* what the other run holds or shows.
C19_RunsIsolated ==
    /\ [](\A r \in Runs :
            /\ planning[r].requirement = user_input(r)
            /\ GaoDeMCPClient_new(r) # GaoDeMCPClient_new(Other(r))
            /\ transport[GaoDeMCPClient_new(r)] = "open" <=> pc[r] \in InScope)
    /\ [][\A r \in Runs : pc'[r] # pc[r] => RunView(Other(r))' = RunView(Other(r))]_vars

C19_Witness ==
    /\ pc[1] = "done"
    /\ raised[1] = "KeyError"
    /\ transport[GaoDeMCPClient_new(1)] = "closed"
    /\ pc[2] = "invoke"
    /\ transport[GaoDeMCPClient_new(2)] = "open"
    /\ gaode_client[GaoDeMCPClient_new(2)].session # "None"
    /\ planning[2].requirement = user_input(2)

====
